---- MODULE Spec2Model ----
(***************************************************************************)
(* Model of the sync-signal decoder and the coarse trial alignment of      *)
(* churchland_pipeline_python/utilities/datasync.py, of the makes of       *)
(* EphysTrialStart and TrialAlignment in datajoint_pacman, and of the      *)
(* parser of the controller log, SpeedgoatParser.                          *)
(*                                                                         *)
(* The sync signal is a two-level signal given by its run lengths: runs[1] *)
(* samples at one level, runs[2] at the other, and so on.  A two-level     *)
(* signal with both levels present is its own binarisation at the mean; a  *)
(* constant (or empty) one binarises to all-False.  Times are kept in      *)
(* deciseconds, as the 32-bit code stores them, in a two-limb form so that *)
(* all 32 bits fit; a comparison of binary64 values whose operands are     *)
(* equal as rationals may go either way and is a choice of the action.     *)
(***************************************************************************)
EXTENDS Integers, Sequences, FiniteSets, TLC

VARIABLES
    enc,            \* how the input signal was built (kept for the properties)
    fs,             \* argument fs
    max_sample_err, \* argument max_sample_err
    max_time_step,  \* argument max_time_step, in deciseconds
    runs,           \* argument sync_signal, as run lengths
    pc,             \* position in decodesyncsignal
    num_samples,    \* len(sync_signal)
    edge_idx,       \* edge_idx (0-based sample indices)
    pulse_len,      \* pulse_len
    first_pulse,    \* first_pulse (0-based pulse indices)
    sync_blocks,    \* sync_blocks before the final filter
    t_max,          \* t_max
    fp_tie,         \* how time > t_max went for a time equal to t_max as a rational
    warned,         \* whether warnings.warn was called
    raised,         \* the exception that ended the call, or "none"
    returned,       \* the returned list
    fs_ephys,              \* argument fs_ephys
    trial_time,            \* argument trial_time: one time vector per trial, microseconds
    sync_block_start,      \* argument sync_block_start
    sync_block_time,       \* argument sync_block_time, microseconds
    session_date,          \* session_key['session_date'], as the number yyyymmdd
    epc,                   \* position in EphysTrialStart.make and ephystrialstart
    i0,                    \* loop index of ephystrialstart, from 1
    sync_block_start_bins, \* twice the finite bin edges; np.Inf follows them
    sync_block_time_bins,  \* twice the finite bin edges; np.Inf follows them
    nearest_block,         \* nearest_block of the trial at hand, from 1; 0 before any
    ephys_trial_start_idx, \* ephys_trial_start_idx
    eraised,               \* the exception that ended the call, or "none"
    inserted,              \* the rows passed to self.insert
    atrial,             \* what TrialAlignment.make fetches for the key
    key,                \* the dict that is passed to make as key
    apc,                \* position in TrialAlignment.make
    align_idx,          \* align_idx
    zero_idx,           \* zero_idx
    target_force,       \* target_force
    align_idx_trunc,    \* align_idx_trunc
    nmse,               \* nmse, one entry per lag
    div_by_zero,        \* whether a division by var(target_force) = 0 was evaluated
    behavior_alignment, \* behavior_alignment
    ephys_alignment,    \* ephys_alignment
    araised,            \* the exception that ended the call, or "none"
    stored,             \* the rows passed to self.insert1
    file_path,     \* the directory of the parser: the files of each trial number
    sample_rate,   \* SpeedgoatParser.sample_rate
    success_state, \* task_states[success_state_name]
    trial_files,   \* SpeedgoatParser.trial_files
    trial_params,  \* SpeedgoatParser.trial_params
    trial_data,    \* SpeedgoatParser.trial_data
    sg_trial,      \* what readtrialdata of the Jumanji rig returned
    ppc            \* position in the calls of the parser

dvars == <<enc, fs, max_sample_err, max_time_step, runs, pc, num_samples,
           edge_idx, pulse_len, first_pulse, sync_blocks, t_max, fp_tie,
           warned, raised, returned>>

evars == <<fs_ephys, trial_time, sync_block_start, sync_block_time, session_date,
           epc, i0, sync_block_start_bins, sync_block_time_bins, nearest_block,
           ephys_trial_start_idx, eraised, inserted>>

avars == <<atrial, key, apc, align_idx, zero_idx, target_force, align_idx_trunc, nmse,
           div_by_zero, behavior_alignment, ephys_alignment, araised, stored>>

pvars == <<file_path, sample_rate, success_state, trial_files, trial_params,
           trial_data, sg_trial, ppc>>

vars == <<dvars, evars, avars, pvars>>

(***************************************************************************)
(* Bounds of the model.                                                    *)
(***************************************************************************)
MaxBlocks == 3
MaxSyncBlocks == 4
MaxTrials == 2
MaxPad == 2
MaxDur == 5
MaxSamples == 3

(***************************************************************************)
(* Arithmetic helpers.                                                     *)
(***************************************************************************)
Abs(x) == IF x < 0 THEN -x ELSE x

\* round(n/d) to the nearest integer, ties to even (Python 3 round, np.round); d > 0
RoundHalfEven(n, d) ==
    LET q == n \div d
        r == n % d
    IN  IF 2 * r < d THEN q
        ELSE IF 2 * r > d THEN q + 1
        ELSE IF q % 2 = 0 THEN q ELSE q + 1

\* s[lo] + ... + s[hi], by halves
RECURSIVE SumRange(_, _, _)
SumRange(s, lo, hi) ==
    IF hi < lo THEN 0
    ELSE IF lo = hi THEN s[lo]
    ELSE LET mid == (lo + hi) \div 2
         IN  SumRange(s, lo, mid) + SumRange(s, mid + 1, hi)

SumSeq(s) == SumRange(s, 1, Len(s))

\* np.diff of a list
Diff(s) == [i \in 1..(IF Len(s) = 0 THEN 0 ELSE Len(s) - 1) |-> s[i + 1] - s[i]]

\* running totals of s[lo..hi] on top of acc, by halves
RECURSIVE CumRange(_, _, _, _)
CumRange(s, lo, hi, acc) ==
    IF hi < lo THEN <<>>
    ELSE IF lo = hi THEN <<acc + s[lo]>>
    ELSE LET mid  == (lo + hi) \div 2
             left == CumRange(s, lo, mid, acc)
         IN  left \o CumRange(s, mid + 1, hi, left[Len(left)])

CumSum(s, acc) == CumRange(s, 1, Len(s), acc)

\* Two-limb integers: value = hi * Base + lo, 0 <= lo < Base
Base == 256 * 256
Norm(h, l) == [hi |-> h + (l \div Base), lo |-> l % Base]
WInt(v) == Norm(0, v)
WSub(a, b) == Norm(a.hi - b.hi, a.lo - b.lo)
WAdd(a, b) == Norm(a.hi + b.hi, a.lo + b.lo)
WGt(a, b) == a.hi > b.hi \/ (a.hi = b.hi /\ a.lo > b.lo)
WLe(a, b) == ~WGt(a, b)

\* A float: NaN, or a number of deciseconds
NaN == [nan |-> TRUE, v |-> WInt(0)]
Num(w) == [nan |-> FALSE, v |-> w]

FloatGt(a, b) == ~a.nan /\ ~b.nan /\ WGt(a.v, b.v)
FloatLt(a, b) == FloatGt(b, a)

(***************************************************************************)
(* decodesyncsignal                                                        *)
(***************************************************************************)

\* samples_per_ms = int(round(fs/1e3))
SamplesPerMs(f) == RoundHalfEven(f, 1000)

\* expected_pulse_len, in the order of the dict
ExpectedPulseLen(f) ==
    [low           |-> SamplesPerMs(f),
     high          |-> 2 * SamplesPerMs(f),
     inter_block   |-> 6 * SamplesPerMs(f),
     dropped_block |-> 106 * SamplesPerMs(f)]

ExpectedValues(f) ==
    <<ExpectedPulseLen(f).low, ExpectedPulseLen(f).high,
      ExpectedPulseLen(f).inter_block, ExpectedPulseLen(f).dropped_block>>

\* min(expected_pulse_len.values(), key=lambda x: abs(x-len)): the first minimum
NearestExpectedPulseLen(f, len) ==
    LET ev == ExpectedValues(f)
        i  == CHOOSE i \in 1..4 :
                  /\ \A j \in 1..4 : Abs(ev[i] - len) <= Abs(ev[j] - len)
                  /\ \A j \in 1..(i - 1) : Abs(ev[j] - len) > Abs(ev[i] - len)
    IN  ev[i]

\* indices of rising and falling edges: every sample that differs from the one before
EdgeIdx(r) ==
    IF Len(r) < 2 THEN <<>> ELSE SubSeq(CumSum(r, 0), 1, Len(r) - 1)

\* new_block = (pulse_len >= expected_pulse_len['inter_block'])
NewBlock(f, pl) == {i \in 0..(Len(pl) - 1) : pl[i + 1] >= ExpectedPulseLen(f).inter_block}

Min(S) == CHOOSE x \in S : \A y \in S : x <= y
Max(S) == CHOOSE x \in S : \A y \in S : x >= y

\* edge_idx[1+first_block_edge_start:last_block_edge_end]
TrimEdges(f, e) ==
    LET nb  == NewBlock(f, Diff(e))
        fst == Min(nb)
        lst == Len(Diff(e)) - (Len(Diff(e)) - 1 - Max(nb))
    IN  SubSeq(e, fst + 2, lst)

\* the sorted list of a set of integers
RECURSIVE SortedSeq(_)
SortedSeq(S) == IF S = {} THEN <<>> ELSE <<Min(S)>> \o SortedSeq(S \ {Min(S)})

\* list(compress(range(num_pulses), first_pulse)): the pulses that follow a gap pulse
AfterGap(f, pl) ==
    {i \in 0..(Len(pl) - 1) :
        i >= 1 /\ NearestExpectedPulseLen(f, pl[i]) > ExpectedPulseLen(f).high}

\* first pulse of every block: pulse 0 and every pulse that follows a gap pulse,
\* kept when 63 more pulses follow it
FirstPulse(f, pl) ==
    SelectSeq(<<0>> \o SortedSeq(AfterGap(f, pl)), LAMBDA i : i + 63 < Len(pl))

\* np.insert into an empty list gives a float64 array, and a float64 that
\* passes line 52 is then used to index the list edge_idx
FloatIndex(f, pl) == AfterGap(f, pl) = {} /\ FirstPulse(f, pl) # <<>>

\* variant: the code is read from the odd offsets
NewSyncBlockOdd(e, pl, fp) ==
    [start     |-> e[fp + 1],
     code      |-> [k \in 1..32 |-> pl[fp + 2 * (k - 1) + 2]],
     corrupted |-> FALSE,
     time      |-> NaN]

\* dict(start=edge_idx[fp], code=pulse_len[fp+range(0,63,2)])
NewSyncBlock(e, pl, fp) ==
    [start     |-> e[fp + 1],
     code      |-> [k \in 1..32 |-> pl[fp + 2 * (k - 1) + 1]],
     corrupted |-> FALSE,
     time      |-> NaN]

\* variant: all() in place of any()
CodeCorruptedAll(f, err, code) ==
    \A k \in 1..Len(code) :
        LET a == Abs(code[k] - ExpectedPulseLen(f).low)
            b == Abs(code[k] - ExpectedPulseLen(f).high)
        IN  (IF a < b THEN a ELSE b) > err

\* any(np.min(abs(code - [low, high])) > max_sample_err)
CodeCorrupted(f, err, code) ==
    \E k \in 1..Len(code) :
        LET a == Abs(code[k] - ExpectedPulseLen(f).low)
            b == Abs(code[k] - ExpectedPulseLen(f).high)
        IN  (IF a < b THEN a ELSE b) > err

\* np.round((code - low)/low), or None
BinaryCode(f, b) ==
    IF b.corrupted THEN <<>>
    ELSE [k \in 1..Len(b.code) |->
             RoundHalfEven(b.code[k] - ExpectedPulseLen(f).low, ExpectedPulseLen(f).low)]

\* sum(code * pow_2), most significant bit first within each limb
RECURSIVE Horner(_, _, _)
Horner(code, from, to) ==
    IF to < from THEN 0 ELSE code[from] + 2 * Horner(code, from + 1, to)

\* variant: the weights start at 2^1
BlockTimeShifted(b) ==
    IF b.corrupted THEN NaN
    ELSE Num(Norm(2 * Horner(b.code, 17, 32), 2 * Horner(b.code, 1, 16)))

\* sum(code * pow_2)/10 seconds, or nan
BlockTime(b) ==
    IF b.corrupted THEN NaN
    ELSE Num(Norm(Horner(b.code, 17, 32), Horner(b.code, 1, 16)))

\* t_max = sync_blocks[0]['time'] + num_samples/fs
TMax(blocks, n, f) == [nan |-> blocks[1].time.nan, t0 |-> blocks[1].time.v, n |-> n, fs |-> f]

\* time > t_max away from a tie, and whether the two are equal as rationals
ExceedsTMax(time, tm) ==
    /\ ~time.nan /\ ~tm.nan
    /\ WGt(WSub(time.v, tm.t0), WInt((10 * tm.n) \div tm.fs))
TiesTMax(time, tm) ==
    /\ ~time.nan /\ ~tm.nan
    /\ (10 * tm.n) % tm.fs = 0
    /\ WSub(time.v, tm.t0) = WInt((10 * tm.n) \div tm.fs)

\* [block.update(corrupted=block['time'] > t_max) for block if not block['corrupted']]
BoundBlock(b, tm, tie) ==
    IF b.corrupted THEN b
    ELSE [b EXCEPT !.corrupted = ExceedsTMax(b.time, tm) \/ (tie /\ TiesTMax(b.time, tm))]

\* variant: the block before the one the walk is at (the first has none before it)
PrevPosBefore(idx) == IF idx = 1 THEN 1 ELSE idx - 1

\* position (from 1) in sync_blocks of sync_blocks[idx-1], idx counted from start=1
PrevPos(idx) == (idx - 1) + 1

\* one round of the walk; blocks are updated in place, in order
RECURSIVE WalkBlocks(_, _, _)
WalkBlocks(blocks, idx, step) ==
    IF idx > Len(blocks) THEN blocks
    ELSE LET b == blocks[idx]
             p == blocks[PrevPos(idx)]
             c == \/ FloatGt(b.time, IF p.time.nan THEN NaN ELSE Num(WAdd(p.time.v, WInt(step))))
                  \/ FloatLt(b.time, p.time)
         IN  WalkBlocks(IF b.corrupted THEN blocks
                        ELSE [blocks EXCEPT ![idx].corrupted = c],
                        idx + 1, step)

NumCorrupted(blocks) == Cardinality({i \in 1..Len(blocks) : blocks[i].corrupted})

\* the percentage of corrupted blocks above which the warning is given
WarnPercent == 10

\* variant: the warning is given from the threshold on
HighCorruptionFrom(blocks) == 100 * NumCorrupted(blocks) >= WarnPercent * Len(blocks)

\* p_corrupted > 10 with p_corrupted = 100 * corrupted / len
HighCorruption(blocks) == 100 * NumCorrupted(blocks) > WarnPercent * Len(blocks)

\* variant: every block is kept
AllBlocks(blocks) == blocks

\* [block for block in sync_blocks if not block['corrupted']]
Uncorrupted(blocks) == SelectSeq(blocks, LAMBDA b : ~b.corrupted)

(***************************************************************************)
(* Input signals.  A signal is either one of a few short signals given     *)
(* pulse by pulse, or the encoding of a list of decisecond timestamps:     *)
(* a lead-in, two stray pulses, a gap pulse, then per timestamp 64 pulses  *)
(* (the 32 code pulses at even offsets, low for 0 and high for 1, each     *)
(* followed by a low pulse) and a gap pulse, then a tail.  One pulse of    *)
(* one block may have its length replaced.                                 *)
(***************************************************************************)
Configs == {[fs |-> 1000, err |-> 2], [fs |-> 30000, err |-> 2]}
T0Set == {0, 7}
StepSet == {-1, 1, 10}
GapMuls == {6, 106}
Tails == {"short", "long", "exact"}
PosSet == {0, 1, 62, 63}

RECURSIVE TsSeqs(_)
TsSeqs(n) ==
    IF n = 0 THEN {<<>>}
    ELSE IF n = 1 THEN {<<t>> : t \in T0Set}
    ELSE {q \in {Append(s, s[n - 1] + d) : s \in TsSeqs(n - 1), d \in StepSet} : q[n] >= 0}

\* timestamps that advance by the same step from block to block
RampSeqs(n) ==
    {[i \in 1..n |-> t + (i - 1) * d] :
        t \in T0Set, d \in {x \in StepSet : \A u \in T0Set : u + (n - 1) * x >= 0}}

MutLens(c) ==
    LET m == SamplesPerMs(c.fs)
    IN  {l \in {m - c.err - 1, m, m + c.err + 1, 2 * m, 2 * m + c.err + 1,
                4 * m + 1, 6 * m} : l >= 1}

NoMut == [k |-> 0, pos |-> 0, len |-> 0]

\* block counts at which one corrupted block is exactly, and just under, the
\* percentage of the warning
ManyBlocks == {100 \div WarnPercent, (100 \div WarnPercent) + 1}

\* long recordings at 30 kHz: none or one code pulse of one block made invalid
LongInputs ==
    {[kind |-> "enc", cfg |-> [fs |-> 30000, err |-> 2], ts |-> [i \in 1..n |-> i - 1],
      mut |-> mu, gap |-> 6, tail |-> "long", raw |-> <<>>] :
        n \in ManyBlocks,
        mu \in {NoMut, [k |-> 2, pos |-> 0, len |-> 33], [k |-> 1, pos |-> 62, len |-> 33]}}

\* every timestamp list with no pulse replaced; one pulse replaced in the ramps
EncodedInputs ==
    {[kind |-> "enc", cfg |-> c, ts |-> ts, mut |-> mu, gap |-> g, tail |-> tl, raw |-> <<>>] :
        c \in Configs, ts \in UNION {TsSeqs(n) : n \in 0..MaxBlocks},
        mu \in {NoMut}, g \in GapMuls, tl \in Tails}
    \cup
    UNION {{[kind |-> "enc", cfg |-> c, ts |-> ts,
             mut |-> [k |-> k, pos |-> p, len |-> l], gap |-> 6, tail |-> tl, raw |-> <<>>] :
               k \in 1..Len(ts), p \in PosSet, l \in MutLens(c)} :
        c \in Configs, ts \in UNION {RampSeqs(n) : n \in 1..MaxBlocks}, tl \in {"short", "long"}}

\* short signals, pulse lengths in milliseconds
RawSignals ==
    {<<>>, <<4>>, <<3, 4>>, <<3, 1, 4>>, <<3, 1, 2, 1, 4>>, <<3, 6, 4>>,
     <<3, 1, 6, 2, 4>>, <<3, 6, 1, 2, 1, 6, 4>>}

RawInputs ==
    {[kind |-> "raw", cfg |-> c, ts |-> <<>>, mut |-> NoMut, gap |-> 6, tail |-> "short", raw |-> r] :
        c \in Configs, r \in RawSignals}

\* bit k of a timestamp below 2^16
Bit(v, k) == IF k >= 16 THEN 0 ELSE (v \div (2 ^ k)) % 2

\* the 64 pulses of one timestamp
EncodeBlock(v, m) ==
    [i \in 1..64 |-> IF i % 2 = 1 /\ Bit(v, (i - 1) \div 2) = 1 THEN 2 * m ELSE m]

\* the pulses of block k of an input, the replaced pulse included
BlockPulses(e, k) ==
    LET m == SamplesPerMs(e.cfg.fs)
        p == EncodeBlock(e.ts[k], m)
    IN  IF e.mut.k = k THEN [p EXCEPT ![e.mut.pos + 1] = e.mut.len] ELSE p

RECURSIVE BlocksAndGaps(_, _)
BlocksAndGaps(e, k) ==
    IF k > Len(e.ts) THEN <<>>
    ELSE BlockPulses(e, k) \o <<e.gap * SamplesPerMs(e.cfg.fs)>> \o BlocksAndGaps(e, k + 1)

RunsOf(e) ==
    LET m == SamplesPerMs(e.cfg.fs)
        body == <<3, m, 2 * m, 6 * m>> \o BlocksAndGaps(e, 1)
    IN  IF e.kind = "raw" THEN [i \in 1..Len(e.raw) |-> e.raw[i] * m]
        ELSE body \o <<CASE e.tail = "short" -> 1
                         [] e.tail = "long"  -> 2100 * m
                         [] e.tail = "exact" -> 1000 * m - SumSeq(body)>>

(***************************************************************************)
(* The steps of decodesyncsignal.                                          *)
(***************************************************************************)
\* no call of TrialAlignment.make is under way
AIdle ==
    /\ atrial = <<>> /\ key = <<>> /\ apc = "idle" /\ align_idx = 0 /\ zero_idx = 0
    /\ target_force = <<>> /\ align_idx_trunc = <<>> /\ nmse = <<>>
    /\ div_by_zero = FALSE /\ behavior_alignment = <<>> /\ ephys_alignment = <<>>
    /\ araised = "none" /\ stored = <<>>

\* no call of EphysTrialStart.make is under way
EIdle ==
    /\ fs_ephys = 1 /\ trial_time = <<>> /\ sync_block_start = <<>>
    /\ sync_block_time = <<>> /\ session_date = 0 /\ epc = "idle" /\ i0 = 0
    /\ sync_block_start_bins = <<>> /\ sync_block_time_bins = <<>>
    /\ nearest_block = 0
    /\ ephys_trial_start_idx = <<>> /\ eraised = "none" /\ inserted = <<>>

\* the value None, and a value that is not None
None == [none |-> TRUE]
Some(x) == [none |-> FALSE, v |-> x]

\* no call of the parser of the controller log is under way
PIdle ==
    /\ file_path = <<>> /\ sample_rate = 1000 /\ success_state = 100
    /\ trial_files = <<>> /\ trial_params = <<>> /\ trial_data = <<>>
    /\ sg_trial = None /\ ppc = "idle"

DefaultMaxTimeStep == 2

Init ==
    /\ enc \in EncodedInputs \cup LongInputs \cup RawInputs
    /\ fs = enc.cfg.fs
    /\ max_sample_err = enc.cfg.err
    /\ max_time_step = DefaultMaxTimeStep
    /\ runs = RunsOf(enc)
    /\ pc = "start"
    /\ num_samples = 0
    /\ edge_idx = <<>>
    /\ pulse_len = <<>>
    /\ first_pulse = <<>>
    /\ sync_blocks = <<>>
    /\ t_max = [nan |-> TRUE, t0 |-> WInt(0), n |-> 0, fs |-> 1]
    /\ fp_tie = FALSE
    /\ warned = FALSE
    /\ raised = "none"
    /\ returned = <<>>
    /\ EIdle
    /\ AIdle
    /\ PIdle

\* lines 13-32: binarise, find the edges, measure the pulses
FindEdges ==
    /\ pc = "start"
    /\ num_samples' = SumSeq(runs)
    /\ edge_idx' = EdgeIdx(runs)
    /\ pulse_len' = Diff(EdgeIdx(runs))
    /\ pc' = "edges"
    /\ UNCHANGED <<enc, fs, max_sample_err, max_time_step, runs, first_pulse,
                   sync_blocks, t_max, fp_tie, warned, raised, returned>>
    /\ UNCHANGED <<evars, avars, pvars>>

\* lines 35-42: remove partial leading and trailing blocks
Trim ==
    /\ pc = "edges"
    /\ NewBlock(fs, pulse_len) # {}
    /\ edge_idx' = TrimEdges(fs, edge_idx)
    /\ pulse_len' = Diff(TrimEdges(fs, edge_idx))
    /\ pc' = "trimmed"
    /\ UNCHANGED <<enc, fs, max_sample_err, max_time_step, runs, num_samples,
                   first_pulse, sync_blocks, t_max, fp_tie, warned, raised, returned>>
    /\ UNCHANGED <<evars, avars, pvars>>

\* variant: an early return of an empty list
TrimFailsQuiet ==
    /\ pc = "edges"
    /\ NewBlock(fs, pulse_len) = {}
    /\ returned' = <<>>
    /\ pc' = "done"
    /\ UNCHANGED <<enc, fs, max_sample_err, max_time_step, runs, num_samples, edge_idx,
                   pulse_len, first_pulse, sync_blocks, t_max, fp_tie, warned, raised>>
    /\ UNCHANGED <<evars, avars, pvars>>

\* line 36: next() of an iterator that yields nothing
TrimFails ==
    /\ pc = "edges"
    /\ NewBlock(fs, pulse_len) = {}
    /\ raised' = "StopIteration"
    /\ pc' = "raised"
    /\ UNCHANGED <<enc, fs, max_sample_err, max_time_step, runs, num_samples, edge_idx,
                   pulse_len, first_pulse, sync_blocks, t_max, fp_tie, warned, returned>>
    /\ UNCHANGED <<evars, avars, pvars>>

\* lines 44-56: find the first pulse of each block and extract its code pulses
Segment ==
    /\ pc = "trimmed"
    /\ ~FloatIndex(fs, pulse_len)
    /\ LET fp == FirstPulse(fs, pulse_len)
       IN  /\ first_pulse' = fp
           /\ sync_blocks' = [i \in 1..Len(fp) |-> NewSyncBlock(edge_idx, pulse_len, fp[i])]
    /\ pc' = "segmented"
    /\ UNCHANGED <<enc, fs, max_sample_err, max_time_step, runs, num_samples, edge_idx,
                   pulse_len, t_max, fp_tie, warned, raised, returned>>
    /\ UNCHANGED <<evars, avars, pvars>>

\* line 55: edge_idx[i] with i a numpy.float64
SegmentFails ==
    /\ pc = "trimmed"
    /\ FloatIndex(fs, pulse_len)
    /\ raised' = "TypeError"
    /\ pc' = "raised"
    /\ UNCHANGED <<enc, fs, max_sample_err, max_time_step, runs, num_samples, edge_idx,
                   pulse_len, first_pulse, sync_blocks, t_max, fp_tie, warned, returned>>
    /\ UNCHANGED <<evars, avars, pvars>>

\* lines 58-67: flag blocks with a code pulse far from both expected lengths
CheckCodes ==
    /\ pc = "segmented"
    /\ sync_blocks' = [i \in 1..Len(sync_blocks) |->
                          [sync_blocks[i] EXCEPT
                              !.corrupted = CodeCorrupted(fs, max_sample_err, sync_blocks[i].code)]]
    /\ pc' = "checked"
    /\ UNCHANGED <<enc, fs, max_sample_err, max_time_step, runs, num_samples, edge_idx,
                   pulse_len, first_pulse, t_max, fp_tie, warned, raised, returned>>
    /\ UNCHANGED <<evars, avars, pvars>>

\* lines 69-81: convert the code to binary and decode the time
Decode ==
    /\ pc = "checked"
    /\ sync_blocks' = [i \in 1..Len(sync_blocks) |->
                          LET b == [sync_blocks[i] EXCEPT !.code = BinaryCode(fs, sync_blocks[i])]
                          IN  [b EXCEPT !.time = BlockTime(b)]]
    /\ pc' = "decoded"
    /\ UNCHANGED <<enc, fs, max_sample_err, max_time_step, runs, num_samples, edge_idx,
                   pulse_len, first_pulse, t_max, fp_tie, warned, raised, returned>>
    /\ UNCHANGED <<evars, avars, pvars>>

\* lines 83-86: flag blocks whose time exceeds the recording duration
Bound ==
    /\ pc = "decoded"
    /\ sync_blocks # <<>>
    /\ LET tm == TMax(sync_blocks, num_samples, fs)
       IN  /\ t_max' = tm
           /\ \E tie \in IF \E i \in 1..Len(sync_blocks) : TiesTMax(sync_blocks[i].time, tm)
                          THEN BOOLEAN ELSE {FALSE} :
                 /\ fp_tie' = tie
                 /\ sync_blocks' = [i \in 1..Len(sync_blocks) |->
                                       BoundBlock(sync_blocks[i], tm, tie)]
    /\ pc' = "bounded"
    /\ UNCHANGED <<enc, fs, max_sample_err, max_time_step, runs, num_samples, edge_idx,
                   pulse_len, first_pulse, warned, raised, returned>>
    /\ UNCHANGED <<evars, avars, pvars>>

\* line 84: sync_blocks[0] of an empty list
BoundFails ==
    /\ pc = "decoded"
    /\ sync_blocks = <<>>
    /\ raised' = "IndexError"
    /\ pc' = "raised"
    /\ UNCHANGED <<enc, fs, max_sample_err, max_time_step, runs, num_samples, edge_idx,
                   pulse_len, first_pulse, sync_blocks, t_max, fp_tie, warned, returned>>
    /\ UNCHANGED <<evars, avars, pvars>>

\* lines 88-96: the walk over the blocks for time steps and reversals
Walk ==
    /\ pc = "bounded"
    /\ sync_blocks' = WalkBlocks(sync_blocks, 1, max_time_step)
    /\ pc' = "walked"
    /\ UNCHANGED <<enc, fs, max_sample_err, max_time_step, runs, num_samples, edge_idx,
                   pulse_len, first_pulse, t_max, fp_tie, warned, raised, returned>>
    /\ UNCHANGED <<evars, avars, pvars>>

\* lines 98-106: warn about many corrupted blocks, return the uncorrupted ones
Return ==
    /\ pc = "walked"
    /\ warned' = HighCorruption(sync_blocks)
    /\ returned' = Uncorrupted(sync_blocks)
    /\ pc' = "done"
    /\ UNCHANGED <<enc, fs, max_sample_err, max_time_step, runs, num_samples, edge_idx,
                   pulse_len, first_pulse, sync_blocks, t_max, fp_tie, raised>>
    /\ UNCHANGED <<evars, avars, pvars>>

Next ==
    \/ FindEdges
    \/ Trim
    \/ TrimFails
    \/ Segment
    \/ SegmentFails
    \/ CheckCodes
    \/ Decode
    \/ Bound
    \/ BoundFails
    \/ Walk
    \/ Return

Spec == Init /\ [][Next]_vars

(***************************************************************************)
(* ephystrialstart and EphysTrialStart.make.  Times are in microseconds,   *)
(* the resolution samp2time rounds to.  A bin edge is the mean of two      *)
(* neighbours and is kept doubled, so that it stays an integer.            *)
(***************************************************************************)
\* a float that is nan or an integer
FNaN == [nan |-> TRUE, v |-> 0]
FNum(x) == [nan |-> FALSE, v |-> x]

\* twice np.insert(mean of neighbours, 0, 0); np.Inf is appended to them
MidBins(x) == <<0>> \o [i \in 1..(Len(x) - 1) |-> x[i] + x[i + 1]]

\* np.digitize accepts bins that never decrease (with Inf last they cannot only fall)
Monotonic(bins) == \A i \in 1..(Len(bins) - 1) : bins[i] <= bins[i + 1]

\* variant: an edge equal to t0 is not counted (right=True)
DigitizeRight(t0, bins) == Cardinality({j \in 1..Len(bins) : bins[j] < 2 * t0})

\* np.digitize(t0, bins): the number of bin edges <= t0
Digitize(t0, bins) == Cardinality({j \in 1..Len(bins) : bins[j] <= 2 * t0})

\* round(0.1 * fs_ephys)
LatencyOffset(f) == RoundHalfEven(f, 10)

\* variant: the test against the first block time is missing
OutsideCoverageAfterOnly(t0, times) == t0 > times[Len(times)]

\* t0 < sync_block_time[0] or t0 > sync_block_time[-1]
OutsideCoverage(t0, times) == t0 < times[1] \/ t0 > times[Len(times)]

\* samp2time(xi, sync_idx), sync_idx counted from 1
Samp2Time(xi, k, f, starts, times) ==
    LET d == (xi - starts[k]) * 1000000
        q == d \div f
        r == d % f
    IN  times[k] + q
        + (IF 2 * r > f \/ (2 * r = f /\ (times[k] + q) % 2 = 1) THEN 1 ELSE 0)

\* variant: the range ends at the sum of the starts of the last two blocks
IdxRangeToSum(bins, nearest) ==
    (bins[nearest] \div 2)..bins[Len(bins)]

\* range(floor(start_bins[nearest_block]), 1 + ceil(start_bins[-2])), nearest from 1
IdxRange(bins, nearest) ==
    (bins[nearest] \div 2)..((bins[Len(bins)] + 1) \div 2)

\* the samples of the range whose time is at or after t0
Candidates(t0, nearest, f, starts, times, bins) ==
    {i \in IdxRange(bins, nearest) : Samp2Time(i, nearest, f, starts, times) >= t0}

\* variant: the offset is added
SubOffsetAdds(x, off) == IF x.nan THEN x ELSE FNum(x.v + off)

\* ephys_trial_start_idx -= round(0.1 * fs_ephys); nan stays nan
SubOffset(x, off) == IF x.nan THEN x ELSE FNum(x.v - off)

TrialT0(i) == trial_time[i][1]

\* lines 111-126: the bin edges and the preallocated result
Bins ==
    /\ epc = "start"
    /\ sync_block_start_bins' = MidBins(sync_block_start)
    /\ sync_block_time_bins' = MidBins(sync_block_time)
    /\ ephys_trial_start_idx' = [i \in 1..Len(trial_time) |-> FNum(0)]
    /\ i0' = 1
    /\ epc' = "loop"
    /\ UNCHANGED <<fs_ephys, trial_time, sync_block_start, sync_block_time, session_date,
                   nearest_block, eraised, inserted>>
    /\ UNCHANGED <<dvars, avars, pvars>>

\* lines 130-131: a trial outside the span of the sync blocks
TrialOutside ==
    /\ epc = "loop" /\ i0 <= Len(trial_time)
    /\ OutsideCoverage(TrialT0(i0), sync_block_time)
    /\ ephys_trial_start_idx' = [ephys_trial_start_idx EXCEPT ![i0] = FNaN]
    /\ i0' = i0 + 1
    /\ UNCHANGED <<fs_ephys, trial_time, sync_block_start, sync_block_time, session_date, epc,
                   sync_block_start_bins, sync_block_time_bins, nearest_block, eraised, inserted>>
    /\ UNCHANGED <<dvars, avars, pvars>>

\* line 135: np.digitize refuses bins that are not monotonic
TrialBadBins ==
    /\ epc = "loop" /\ i0 <= Len(trial_time)
    /\ ~OutsideCoverage(TrialT0(i0), sync_block_time)
    /\ ~Monotonic(sync_block_time_bins)
    /\ eraised' = "ValueError"
    /\ epc' = "raised"
    /\ UNCHANGED <<fs_ephys, trial_time, sync_block_start, sync_block_time, session_date, i0,
                   sync_block_start_bins, sync_block_time_bins, nearest_block,
                   ephys_trial_start_idx, inserted>>
    /\ UNCHANGED <<dvars, avars, pvars>>

\* lines 133-143: the first sample of the range at or after the trial start
TrialFound ==
    /\ epc = "loop" /\ i0 <= Len(trial_time)
    /\ ~OutsideCoverage(TrialT0(i0), sync_block_time)
    /\ Monotonic(sync_block_time_bins)
    /\ LET nearest == Digitize(TrialT0(i0), sync_block_time_bins)
           cand    == Candidates(TrialT0(i0), nearest, fs_ephys, sync_block_start,
                                 sync_block_time, sync_block_start_bins)
       IN  /\ cand # {}
           /\ nearest_block' = nearest
           /\ ephys_trial_start_idx' = [ephys_trial_start_idx EXCEPT ![i0] = FNum(Min(cand))]
    /\ i0' = i0 + 1
    /\ UNCHANGED <<fs_ephys, trial_time, sync_block_start, sync_block_time, session_date, epc,
                   sync_block_start_bins, sync_block_time_bins, eraised, inserted>>
    /\ UNCHANGED <<dvars, avars, pvars>>

\* line 143: next() of a generator that yields nothing
TrialNoCandidate ==
    /\ epc = "loop" /\ i0 <= Len(trial_time)
    /\ ~OutsideCoverage(TrialT0(i0), sync_block_time)
    /\ Monotonic(sync_block_time_bins)
    /\ Candidates(TrialT0(i0), Digitize(TrialT0(i0), sync_block_time_bins), fs_ephys,
                  sync_block_start, sync_block_time, sync_block_start_bins) = {}
    /\ nearest_block' = Digitize(TrialT0(i0), sync_block_time_bins)
    /\ eraised' = "StopIteration"
    /\ epc' = "raised"
    /\ UNCHANGED <<fs_ephys, trial_time, sync_block_start, sync_block_time, session_date, i0,
                   sync_block_start_bins, sync_block_time_bins, ephys_trial_start_idx,
                   inserted>>
    /\ UNCHANGED <<dvars, avars, pvars>>

\* lines 145-148: the temporal correction and the return
Offset ==
    /\ epc = "loop" /\ i0 > Len(trial_time)
    /\ ephys_trial_start_idx' =
          [i \in 1..Len(ephys_trial_start_idx) |->
              SubOffset(ephys_trial_start_idx[i], LatencyOffset(fs_ephys))]
    /\ epc' = "returned"
    /\ UNCHANGED <<fs_ephys, trial_time, sync_block_start, sync_block_time, session_date, i0,
                   sync_block_start_bins, sync_block_time_bins, nearest_block, eraised,
                   inserted>>
    /\ UNCHANGED <<dvars, avars, pvars>>

\* datetime.strptime('2018-10-11','%Y-%m-%d').date(), as the number yyyymmdd
LegacyDate == 20181011

\* the session dates of the Session table that a key may have
SessionDates == {LegacyDate - 1, LegacyDate, LegacyDate + 1}

\* session_key['session_date'] <= datetime.strptime('2018-10-11','%Y-%m-%d').date()
IsLegacy(date) == date <= LegacyDate

\* EphysTrialStart.make lines 82-89: the legacy adjustment and the insert
MakeInsert ==
    /\ epc = "returned"
    /\ session_date' \in SessionDates
    /\ inserted' =
          [i \in 1..Len(ephys_trial_start_idx) |->
              IF IsLegacy(session_date') THEN SubOffset(ephys_trial_start_idx[i], -LatencyOffset(fs_ephys))
              ELSE ephys_trial_start_idx[i]]
    /\ epc' = "inserted"
    /\ UNCHANGED <<fs_ephys, trial_time, sync_block_start, sync_block_time, i0,
                   sync_block_start_bins, sync_block_time_bins, nearest_block,
                   ephys_trial_start_idx, eraised>>
    /\ UNCHANGED <<dvars, avars, pvars>>

\* no call of decodesyncsignal is under way
DIdle ==
    /\ enc = [kind |-> "raw", cfg |-> [fs |-> 1000, err |-> 2], ts |-> <<>>, mut |-> NoMut,
              gap |-> 6, tail |-> "short", raw |-> <<>>]
    /\ fs = 1000 /\ max_sample_err = 2 /\ max_time_step = DefaultMaxTimeStep
    /\ runs = <<>> /\ pc = "idle" /\ num_samples = 0 /\ edge_idx = <<>>
    /\ pulse_len = <<>> /\ first_pulse = <<>> /\ sync_blocks = <<>>
    /\ t_max = [nan |-> TRUE, t0 |-> WInt(0), n |-> 0, fs |-> 1]
    /\ fp_tie = FALSE /\ warned = FALSE /\ raised = "none" /\ returned = <<>>

\* sync blocks as the SyncBlock table holds them: starts ascending; the times
\* follow the starts at the sample rate where they advance
EphysRates == {1000, 3000}
TimeSteps == {-2, 1, 2}
FirstStarts == {40}
FirstTimes == {300000}
TrialStarts == {250000, 300000, 330000, 400000, 500000, 750000}

RECURSIVE StepSeqs(_)
StepSeqs(n) ==
    IF n = 0 THEN {<<>>}
    ELSE {Append(s, d) : s \in StepSeqs(n - 1), d \in TimeSteps}

\* steps of two blocks with one time, followed by steps forward
TiedSeqs(n) == {<<0>> \o s : s \in {q \in StepSeqs(n - 1) : \A k \in 1..Len(q) : q[k] > 0}}

\* block times from the steps, in deciseconds of 100000 microseconds
RECURSIVE TimesFrom(_, _)
TimesFrom(t, steps) ==
    IF steps = <<>> THEN <<t>>
    ELSE <<t>> \o TimesFrom(t + 100000 * Head(steps), Tail(steps))

RECURSIVE StartsFrom(_, _, _)
StartsFrom(x, steps, f) ==
    IF steps = <<>> THEN <<x>>
    ELSE <<x>> \o StartsFrom(x + (IF Head(steps) > 0 THEN Head(steps) ELSE 1) * (f \div 10),
                             Tail(steps), f)

RECURSIVE TrialLists(_)
TrialLists(n) ==
    IF n = 0 THEN {<<>>}
    ELSE {Append(s, <<t, t + 1000>>) : s \in TrialLists(n - 1), t \in TrialStarts}

EInit ==
    /\ DIdle
    /\ AIdle
    /\ PIdle
    /\ fs_ephys \in EphysRates
    /\ \E steps \in UNION {StepSeqs(n) : n \in 0..(MaxSyncBlocks - 1)}
                     \cup UNION {TiedSeqs(n) : n \in 1..(MaxSyncBlocks - 1)},
          x \in FirstStarts, t \in FirstTimes :
          /\ \A i \in 1..(Len(steps) + 1) : TimesFrom(t, steps)[i] >= 0
          /\ sync_block_time = TimesFrom(t, steps)
          /\ sync_block_start = StartsFrom(x, steps, fs_ephys)
    /\ trial_time \in UNION {TrialLists(n) : n \in 1..MaxTrials}
    /\ session_date = 0
    /\ epc = "start"
    /\ i0 = 0
    /\ sync_block_start_bins = <<>>
    /\ sync_block_time_bins = <<>>
    /\ nearest_block = 0
    /\ ephys_trial_start_idx = <<>>
    /\ eraised = "none"
    /\ inserted = <<>>

ENext ==
    \/ Bins
    \/ TrialOutside
    \/ TrialBadBins
    \/ TrialFound
    \/ TrialNoCandidate
    \/ Offset
    \/ MakeInsert

SpecEphys == EInit /\ [][ENext]_vars

(***************************************************************************)
(* TrialAlignment.make.  Times are in milliseconds.  Forces are small      *)
(* integers, so that sums, means and variances of them are exact.  An      *)
(* entry of nmse is -inf, nan, or a number that is ordered by the summed   *)
(* squared error it was computed from: for one target of nonzero variance  *)
(* 1 - sqrt(mean(err^2)/var) falls as the summed squared error rises.      *)
(***************************************************************************)
\* index, from 0, of the first TRUE of a sequence of booleans; -1 if there is none
FirstTrue(b) ==
    IF \E i \in 1..Len(b) : b[i] THEN Min({i \in 1..Len(b) : b[i]}) - 1 ELSE -1

\* where the reference event holds: a stimulation sample, or the alignment task state
AlignEvent(tr) ==
    IF tr.stim_cond THEN [i \in 1..Len(tr.stim) |-> tr.stim[i] # 0]
    ELSE [i \in 1..Len(tr.task_state) |-> tr.task_state[i] = tr.task_state_id]

\* next(i for i in range(len(t)) if t[i]>=0)
ZeroIdx(t) == FirstTrue([i \in 1..Len(t) |-> t[i] >= 0])

\* variant: every condition is phase corrected
SearchesLagAlways(tr) == TRUE

\* not pacman_acquisition.ConditionParams.Static & trial_rel
SearchesLag(tr) == ~tr.static

\* int(round(fs_beh * max_lag))
MaxLagSamp(tr) == RoundHalfEven(tr.fs_beh * tr.alignment_max_lag, 1000)

\* range(-max_lag_samp, 1+max_lag_samp)
Lags(L) == [k \in 1..(2 * L + 1) |-> k - L - 1]

\* int(np.log10(fs_beh))
Precision(f) == IF f >= 1000 THEN 3 ELSE IF f >= 100 THEN 2 ELSE IF f >= 10 THEN 1 ELSE 0

\* round(x, precision) of a time in milliseconds
RoundTime(x, p) == RoundHalfEven(x, 10 ^ (3 - p)) * 10 ^ (3 - p)

\* np.nonzero((t>=round(t[0]+max_lag, precision)) & (t<=round(t[-1]-max_lag, precision)))[0]
TruncIdx(tr) ==
    LET p  == Precision(tr.fs_beh)
        lo == RoundTime(tr.t[1] + tr.alignment_max_lag, p)
        hi == RoundTime(tr.t[Len(tr.t)] - tr.alignment_max_lag, p)
    IN  SortedSeq({i \in 0..(Len(tr.t) - 1) : tr.t[i + 1] >= lo /\ tr.t[i + 1] <= hi})

\* a negative index into an array of m elements counts from its end
PyIndex(j, m) == IF j < 0 THEN j + m ELSE j

\* (align_idx+lag+align_idx_trunc[-1]) < len(force)
Evaluated(m, a, lag, att) == a + lag + att[Len(att)] < m

\* force[align_idx+lag+align_idx_trunc] reaches before the start of force
IndexFails(m, a, lag, att) ==
    Evaluated(m, a, lag, att) /\ \E k \in 1..Len(att) : a + lag + att[k] < -m

\* force[align_idx+lag+align_idx_trunc]
ForceAlign(force, a, lag, att) ==
    [k \in 1..Len(att) |-> force[PyIndex(a + lag + att[k], Len(force)) + 1]]

\* sum((force_align-target_force)**2)
SqErr(force, target, a, lag, att) ==
    SumSeq([k \in 1..Len(att) |-> (ForceAlign(force, a, lag, att)[k] - target[k]) ^ 2])

\* np.var(target_force) == 0
ZeroVar(x) == \A i, j \in 1..Len(x) : x[i] = x[j]

NegInf == [kind |-> "neginf", err |-> 0]
NotANumber == [kind |-> "nan", err |-> 0]

\* nmse[idx]: -inf unless evaluated; x/0 is inf and 0/0 is nan
NmseAt(force, target, a, lag, att) ==
    IF ~Evaluated(Len(force), a, lag, att) THEN NegInf
    ELSE IF ZeroVar(target)
         THEN (IF SqErr(force, target, a, lag, att) = 0 THEN NotANumber ELSE NegInf)
         ELSE [kind |-> "num", err |-> SqErr(force, target, a, lag, att)]

\* variant: the last of the largest entries
ArgMaxLast(x) ==
    LET nans == {i \in 1..Len(x) : x[i].kind = "nan"}
        nums == {i \in 1..Len(x) : x[i].kind = "num"}
    IN  IF nans # {} THEN Max(nans) - 1
        ELSE IF nums # {}
             THEN Max({i \in nums : \A j \in nums : x[i].err <= x[j].err}) - 1
             ELSE Len(x) - 1

\* np.argmax: the first nan if there is one, else the first of the largest entries
ArgMax(x) ==
    LET nans == {i \in 1..Len(x) : x[i].kind = "nan"}
        nums == {i \in 1..Len(x) : x[i].kind = "num"}
    IN  IF nans # {} THEN Min(nans) - 1
        ELSE IF nums # {}
             THEN Min({i \in nums : \A j \in nums : x[i].err <= x[j].err}) - 1
             ELSE 0

\* (t[-1] + 1/fs_beh - t[0]) / (1/fs_ephys), as numerator over 1000
ArangeSpan(tr) == (tr.t[Len(tr.t)] + (1000 \div tr.fs_beh) - tr.t[1]) * tr.fs_ephys

\* len(np.arange(t[0], t[-1]+1/fs_beh, 1/fs_ephys)): the ceiling of the span as
\* binary64 computes it, which may exceed a whole number that the span equals
ArangeLens(tr) ==
    IF ArangeSpan(tr) % 1000 = 0
    THEN {ArangeSpan(tr) \div 1000, (ArangeSpan(tr) \div 1000) + 1}
    ELSE {(ArangeSpan(tr) \div 1000) + 1}

\* the elements of fs_ephys * np.arange(...) that are halfway between two whole
\* numbers as rationals; binary64 puts such an element at or to either side of
\* the half, so that np.round takes it up or down
HalfWay(tr, len) ==
    {k \in 1..len : (tr.t[1] * tr.fs_ephys + 1000 * (k - 1)) % 1000 = 500}

\* np.round(fs_ephys * np.arange(...)) + (align_idx - zero_idx) * int(fs_ephys/fs_beh)
\*     + ephys_trial_start
\*     + ephys_trial_start; the elements of ups are rounded up
EphysAlign(tr, a, zi, len, ups) ==
    [k \in 1..len |->
        (IF k \in HalfWay(tr, len)
         THEN ((tr.t[1] * tr.fs_ephys + 1000 * (k - 1)) \div 1000) + (IF k \in ups THEN 1 ELSE 0)
         ELSE RoundHalfEven(tr.t[1] * tr.fs_ephys + 1000 * (k - 1), 1000))
        + (a - zi) * (tr.fs_ephys \div tr.fs_beh) + tr.ephys_trial_start]

\* dict.update(name=val) of the dict d
Update(d, name, val) ==
    [f \in DOMAIN d \cup {name} |-> IF f = name THEN val ELSE d[f]]

\* lines 180-190: the sample of the reference event
SetAlignIdx ==
    /\ apc = "start"
    /\ FirstTrue(AlignEvent(atrial)) >= 0
    /\ align_idx' = FirstTrue(AlignEvent(atrial))
    /\ apc' = "aligned"
    /\ UNCHANGED <<atrial, key, zero_idx, target_force, align_idx_trunc, nmse, div_by_zero,
                   behavior_alignment, ephys_alignment, araised, stored>>
    /\ UNCHANGED <<dvars, evars, pvars>>

\* lines 185, 190: next() of a generator that yields nothing
SetAlignIdxFails ==
    /\ apc = "start"
    /\ FirstTrue(AlignEvent(atrial)) < 0
    /\ araised' = "StopIteration"
    /\ apc' = "raised"
    /\ UNCHANGED <<atrial, key, align_idx, zero_idx, target_force, align_idx_trunc, nmse,
                   div_by_zero, behavior_alignment, ephys_alignment, stored>>
    /\ UNCHANGED <<dvars, evars, pvars>>

\* lines 192-197: the target force and the index of time zero
FetchTarget ==
    /\ apc = "aligned"
    /\ target_force' = atrial.condition_force
    /\ zero_idx' = ZeroIdx(atrial.t)
    /\ apc' = "fetched"
    /\ UNCHANGED <<atrial, key, align_idx, align_idx_trunc, nmse, div_by_zero,
                   behavior_alignment, ephys_alignment, araised, stored>>
    /\ UNCHANGED <<dvars, evars, pvars>>

\* line 200: a static condition is not phase corrected
SkipPhaseCorrection ==
    /\ apc = "fetched"
    /\ ~SearchesLag(atrial)
    /\ apc' = "phased"
    /\ UNCHANGED <<atrial, key, align_idx, zero_idx, target_force, align_idx_trunc, nmse,
                   div_by_zero, behavior_alignment, ephys_alignment, araised, stored>>
    /\ UNCHANGED <<dvars, evars, pvars>>

\* lines 200-224: the lag of the largest nmse is added to align_idx
PhaseCorrect ==
    /\ apc = "fetched"
    /\ SearchesLag(atrial)
    /\ TruncIdx(atrial) # <<>>
    /\ LET L    == MaxLagSamp(atrial)
           tidx == TruncIdx(atrial)
           tf   == [k \in 1..Len(tidx) |-> target_force[tidx[k] + 1]]
           att  == [k \in 1..Len(tidx) |-> tidx[k] - zero_idx]
           m    == Len(atrial.force)
           nm   == [k \in 1..(2 * L + 1) |->
                       NmseAt(atrial.force, tf, align_idx, Lags(L)[k], att)]
       IN  /\ \A k \in 1..(2 * L + 1) : ~IndexFails(m, align_idx, Lags(L)[k], att)
           /\ target_force' = tf
           /\ align_idx_trunc' = att
           /\ nmse' = nm
           /\ div_by_zero' = (ZeroVar(tf) /\ \E k \in 1..(2 * L + 1) :
                                                Evaluated(m, align_idx, Lags(L)[k], att))
           /\ align_idx' = align_idx + Lags(L)[ArgMax(nm) + 1]
    /\ apc' = "phased"
    /\ UNCHANGED <<atrial, key, zero_idx, behavior_alignment, ephys_alignment, araised, stored>>
    /\ UNCHANGED <<dvars, evars, pvars>>

\* lines 219, 220: align_idx_trunc[-1] of an empty array, or an index before
\* the start of force
PhaseCorrectFails ==
    /\ apc = "fetched"
    /\ SearchesLag(atrial)
    /\ LET L    == MaxLagSamp(atrial)
           tidx == TruncIdx(atrial)
           att  == [k \in 1..Len(tidx) |-> tidx[k] - zero_idx]
       IN  \/ tidx = <<>>
           \/ /\ tidx # <<>>
              /\ \E k \in 1..(2 * L + 1) :
                    IndexFails(Len(atrial.force), align_idx, Lags(L)[k], att)
    /\ araised' = "IndexError"
    /\ apc' = "raised"
    /\ UNCHANGED <<atrial, key, align_idx, zero_idx, target_force, align_idx_trunc, nmse,
                   div_by_zero, behavior_alignment, ephys_alignment, stored>>
    /\ UNCHANGED <<dvars, evars, pvars>>

\* lines 226-228: the behavior alignment indices
BehaviorAlignment ==
    /\ apc = "phased"
    /\ behavior_alignment' = [i \in 1..Len(atrial.t) |-> (i - 1) + align_idx - zero_idx]
    /\ key' = Update(key, "behavior_alignment", behavior_alignment')
    /\ apc' = "behavior"
    /\ UNCHANGED <<atrial, align_idx, zero_idx, target_force, align_idx_trunc, nmse,
                   div_by_zero, ephys_alignment, araised, stored>>
    /\ UNCHANGED <<dvars, evars, pvars>>

\* lines 230-235: the ephys alignment indices
EphysAlignment ==
    /\ apc = "behavior"
    /\ \E len \in ArangeLens(atrial) :
          \E ups \in SUBSET HalfWay(atrial, len) :
              ephys_alignment' = EphysAlign(atrial, align_idx, zero_idx, len, ups)
    /\ key' = Update(key, "ephys_alignment", ephys_alignment')
    /\ apc' = "ephys"
    /\ UNCHANGED <<atrial, align_idx, zero_idx, target_force, align_idx_trunc, nmse,
                   div_by_zero, behavior_alignment, araised, stored>>
    /\ UNCHANGED <<dvars, evars, pvars>>

\* line 237: the row is inserted
Insert1 ==
    /\ apc = "ephys"
    /\ stored' = <<key>>
    /\ apc' = "inserted"
    /\ UNCHANGED <<atrial, key, align_idx, zero_idx, target_force, align_idx_trunc, nmse,
                   div_by_zero, behavior_alignment, ephys_alignment, araised>>
    /\ UNCHANGED <<dvars, evars, pvars>>

(***************************************************************************)
(* Trials for TrialAlignment.make, at a behavior rate of 10 Hz.  The       *)
(* condition has a pad of P samples before and after a target of D         *)
(* samples.  The force of the trial is the target force laid down so that  *)
(* it matches at a chosen lag, or a force unrelated to the target.         *)
(***************************************************************************)
BehaviorRates == {10}
EphysRecordings == {[fs |-> 10, start |-> 100], [fs |-> 30, start |-> 5], [fs |-> 30, start |-> 100]}
MaxLags == {100, 200}

\* a recording at one and a half times the behavior rate
HalfRateRecordings == {[fs |-> 15, start |-> 100]}
Shapes == {"static", "flat", "ramp", "wave"}
Durations == 4..MaxDur
EventAt == {0, 2}
Fillers == {7}

\* the force of a trial: the target laid down at lag d, or unrelated to it
ForceKinds(L) ==
    {[related |-> TRUE, d |-> d] : d \in (-L)..L} \cup {[related |-> FALSE, d |-> 0]}

\* ConditionParams.targetforce: the time vector of the condition
TimeVector(P, D, f) == [i \in 1..(D + 2 * P) |-> (i - P) * (1000 \div f)]

\* the force function of a shape at u samples after time zero
ForceFcn(shape, u) ==
    CASE shape = "ramp" -> u
      [] shape = "wave" -> u % 2
      [] OTHER          -> 0

\* ConditionParams.targetforce: the function over the target, held at its
\* first value before and at the first value after it, plus the offset
TargetForce(shape, P, D) ==
    [i \in 1..(D + 2 * P) |->
        2 + (IF i - P <= 0 THEN ForceFcn(shape, 1)
             ELSE IF i - P <= D THEN ForceFcn(shape, i - P)
             ELSE ForceFcn(shape, D + 1))]

\* a force of m samples that holds the target where lag d places it
ShiftedForce(target, a, d, zi, m, fill) ==
    [j \in 1..m |->
        LET i == (j - 1) - (a + d - zi)
        IN  IF i >= 0 /\ i < Len(target) THEN target[i + 1] ELSE fill]

UnrelatedForce(m) == [j \in 1..m |-> (j * j) % 3]

ATrial(shape, P, D, lag, a, fk, extra, stim, rec, f, fill) ==
    LET t  == TimeVector(P, D, f)
        cf == TargetForce(shape, P, D)
        zi == ZeroIdx(t)
        m  == a - zi + Len(t) + extra
    IN  [stim_cond |-> stim,
         static |-> (shape = "static"),
         task_state_id |-> 1,
         task_state |-> [j \in 1..m |-> IF j - 1 >= (IF stim THEN a + 1 ELSE a) THEN 1 ELSE 0],
         stim |-> [j \in 1..m |-> IF stim /\ j - 1 = a THEN 1 ELSE 0],
         fs_beh |-> f,
         fs_ephys |-> rec.fs,
         ephys_trial_start |-> rec.start,
         alignment_max_lag |-> lag,
         t |-> t,
         condition_force |-> cf,
         force |-> IF fk.related THEN ShiftedForce(cf, a, fk.d, zi, m, fill)
                   ELSE UnrelatedForce(m),
         related |-> fk.related,
         shift |-> fk.d]

\* a trial in which the reference event never happens
NoEvent(tr) == [tr EXCEPT !.task_state = [j \in 1..Len(tr.task_state) |-> 0],
                          !.stim = [j \in 1..Len(tr.stim) |-> 0]]

\* the primary key of a trial, as populate passes it to make
PrimaryKey == [session |-> "s", trial |-> 1]

\* trials of a ramp of 4 samples without pad, recorded at the half rate
HalfRateTrials ==
    UNION {{ATrial("ramp", 0, 4, lag, a, fk, (f * lag) \div 1000, FALSE, rec, f, fill) :
               a \in EventAt, fk \in ForceKinds((f * lag) \div 1000),
               rec \in HalfRateRecordings, fill \in Fillers} :
           lag \in MaxLags, f \in BehaviorRates}

\* trials of a ramp of 4 samples without pad whose force ends with the sample
\* of the reference event
ShortTrials ==
    UNION {{ATrial("ramp", 0, 4, lag, a, fk, -(2 * ((f * lag) \div 1000) + 1), FALSE, rec, f, fill) :
               a \in EventAt, fk \in {k \in ForceKinds(0) : ~k.related},
               rec \in EphysRecordings, fill \in Fillers} :
           lag \in {l \in MaxLags : \A k \in MaxLags : l <= k}, f \in BehaviorRates}

ATrials ==
    UNION {{ATrial(shape, P, D, lag, a, fk, extra, stim, rec, f, fill) :
               shape \in Shapes, P \in 0..MaxPad, D \in Durations, a \in EventAt,
               fk \in ForceKinds((f * lag) \div 1000),
               extra \in {-1, (f * lag) \div 1000}, stim \in BOOLEAN,
               rec \in EphysRecordings, fill \in Fillers} :
           lag \in MaxLags, f \in BehaviorRates}

AInit ==
    /\ DIdle
    /\ EIdle
    /\ PIdle
    /\ atrial \in ATrials \cup {NoEvent(ATrial("ramp", 1, 4, lag, a, fk, 1, s, rec, f, fill)) :
                                  lag \in MaxLags, a \in EventAt, fk \in ForceKinds(0),
                                  s \in BOOLEAN, rec \in EphysRecordings,
                                  f \in BehaviorRates, fill \in Fillers}
                     \cup HalfRateTrials \cup ShortTrials
    /\ key = PrimaryKey
    /\ apc = "start"
    /\ align_idx = 0
    /\ zero_idx = 0
    /\ target_force = <<>>
    /\ align_idx_trunc = <<>>
    /\ nmse = <<>>
    /\ div_by_zero = FALSE
    /\ behavior_alignment = <<>>
    /\ ephys_alignment = <<>>
    /\ araised = "none"
    /\ stored = <<>>

ANext ==
    \/ SetAlignIdx
    \/ SetAlignIdxFails
    \/ FetchTarget
    \/ SkipPhaseCorrection
    \/ PhaseCorrect
    \/ PhaseCorrectFails
    \/ BehaviorAlignment
    \/ EphysAlignment
    \/ Insert1

SpecAlign == AInit /\ [][ANext]_vars

(***************************************************************************)
(* SpeedgoatParser and readtrialdata of the Jumanji rig.  A directory      *)
(* holds, for each trial number, a params file and a data file, or lacks   *)
(* them.  A data file is given by its simulation time, in milliseconds,    *)
(* and the last task state; a params file by whether it is empty.  The     *)
(* summary file is present and names the success state.                    *)
(***************************************************************************)
\* np.diff(simulation_time)
TimeDiff(time) == [i \in 1..(Len(time) - 1) |-> time[i + 1] - time[i]]

\* any((dt > int(0.5 * sample_rate)) and (dt < int(1.5 * sample_rate)) for dt in
\* np.diff(simulation_time)); the vector holds seconds, the model milliseconds
MissingPackets(time, sr) ==
    \E i \in 1..(Len(time) - 1) :
        /\ TimeDiff(time)[i] > 1000 * (sr \div 2)
        /\ TimeDiff(time)[i] < 1000 * ((3 * sr) \div 2)

\* SpeedgoatParser._read_simulation_time
ReadSimulationTime(time, sr) == IF MissingPackets(time, sr) THEN None ELSE Some(time)

\* SpeedgoatParser._get_trial_result
GetTrialResult(last_state, success) ==
    IF last_state < success THEN None ELSE Some(last_state = success)

\* SpeedgoatParser.read_trial_data
ReadTrialData(files, n, sr, success) ==
    IF ReadSimulationTime(files[n].data.time, sr).none THEN None
    ELSE IF GetTrialResult(files[n].data.last_state, success).none THEN None
    ELSE Some([simulation_time |-> ReadSimulationTime(files[n].data.time, sr).v,
               successful_trial |-> GetTrialResult(files[n].data.last_state, success).v])

\* SpeedgoatParser.read_trial_params
ReadTrialParams(files, n) ==
    IF files[n].params = "empty" THEN None ELSE Some([type |-> files[n].params])

\* matched_trials = params_trials.union(data_trials)
MatchedTrials(params, data) == DOMAIN params \cup DOMAIN data

\* {k: v for k, v in d.items() if k in matched_trials}
Restrict(d, keep) == [k \in DOMAIN d \cap keep |-> d[k]]

\* SAMPLE_RATE and SUCCESS_STATE of readtrialdata
JumanjiSampleRate == 1000
JumanjiSuccessState == 100

\* readtrialdata of the Jumanji rig: None for dropped packets; successful_trial
\* stays [] for an incomplete trial
ReadTrialDataJumanji(file) ==
    IF MissingPackets(file.time, JumanjiSampleRate) THEN None
    ELSE Some([simulation_time |-> file.time,
               successful_trial |->
                   IF file.last_state < JumanjiSuccessState THEN "[]"
                   ELSE IF file.last_state = JumanjiSuccessState THEN "1" ELSE "0"])

\* __init__, lines 46-103: trial numbers with both a params and a data file
Construct ==
    /\ ppc = "new"
    /\ trial_files' = Restrict(file_path, {n \in DOMAIN file_path :
                                   file_path[n].params # "none" /\ file_path[n].data.has})
    /\ ppc' = "constructed"
    /\ UNCHANGED <<file_path, sample_rate, success_state, trial_params, trial_data, sg_trial>>
    /\ UNCHANGED <<dvars, evars, avars>>

\* set_trial_params, lines 130-136
SetTrialParams ==
    /\ ppc = "constructed"
    /\ trial_params' =
          [n \in {k \in DOMAIN trial_files : ~ReadTrialParams(trial_files, k).none} |->
              ReadTrialParams(trial_files, n).v]
    /\ ppc' = "params"
    /\ UNCHANGED <<file_path, sample_rate, success_state, trial_files, trial_data, sg_trial>>
    /\ UNCHANGED <<dvars, evars, avars>>

\* set_trial_data, lines 122-128
SetTrialData ==
    /\ ppc = "params"
    /\ trial_data' =
          [n \in {k \in DOMAIN trial_files :
                     ~ReadTrialData(trial_files, k, sample_rate, success_state).none} |->
              ReadTrialData(trial_files, n, sample_rate, success_state).v]
    /\ ppc' = "data"
    /\ UNCHANGED <<file_path, sample_rate, success_state, trial_files, trial_params, sg_trial>>
    /\ UNCHANGED <<dvars, evars, avars>>

\* set_trial_data_and_params, lines 112-120: the two dictionaries are filtered
MatchTrials ==
    /\ ppc = "data"
    /\ trial_params' = Restrict(trial_params, MatchedTrials(trial_params, trial_data))
    /\ trial_data' = Restrict(trial_data, MatchedTrials(trial_params, trial_data))
    /\ ppc' = "matched"
    /\ UNCHANGED <<file_path, sample_rate, success_state, trial_files, sg_trial>>
    /\ UNCHANGED <<dvars, evars, avars>>

\* readtrialdata of the Jumanji rig is called on the data file of a trial
LegacyRead ==
    /\ ppc = "matched"
    /\ \E n \in DOMAIN trial_files : sg_trial' = ReadTrialDataJumanji(trial_files[n].data)
    /\ ppc' = "legacy"
    /\ UNCHANGED <<file_path, sample_rate, success_state, trial_files, trial_params,
                   trial_data>>
    /\ UNCHANGED <<dvars, evars, avars>>

\* directories: at most MaxSamples time samples in a data file
SampleRates == {500, 1000}
LastStates == {99, 100, 101}
TrialNumbers == {1, 2}
FirstSample == {5000}

\* the time differences of a data file: one sample period, two of them (a
\* packet was dropped), or as many seconds as the sample rate has hertz
TimeGaps(sr) == {1000 \div sr, 2 * (1000 \div sr), 1000 * sr}

RECURSIVE TimeVectors(_, _)
TimeVectors(n, sr) ==
    IF n = 1 THEN {<<t>> : t \in FirstSample}
    ELSE {Append(v, v[Len(v)] + d) : v \in TimeVectors(n - 1, sr), d \in TimeGaps(sr)}

NoFile == [has |-> FALSE, time |-> <<>>, last_state |-> 0]

DataFiles(sr) ==
    {NoFile} \cup {[has |-> TRUE, time |-> v, last_state |-> l] :
                      v \in UNION {TimeVectors(n, sr) : n \in 1..MaxSamples},
                      l \in LastStates}

ParamsFiles == {"none", "empty", "text"}

PInit ==
    /\ DIdle
    /\ EIdle
    /\ AIdle
    /\ sample_rate \in SampleRates
    /\ success_state = 100
    /\ file_path \in [TrialNumbers -> [params : ParamsFiles, data : DataFiles(sample_rate)]]
    /\ trial_files = <<>>
    /\ trial_params = <<>>
    /\ trial_data = <<>>
    /\ sg_trial = None
    /\ ppc = "new"

PNext ==
    \/ Construct
    \/ SetTrialParams
    \/ SetTrialData
    \/ MatchTrials
    \/ LegacyRead

SpecParse == PInit /\ [][PNext]_vars

(***************************************************************************)
(* Properties of decodesyncsignal.                                         *)
(***************************************************************************)
Terminal == pc \in {"done", "raised"}

\* the input encodes enc.ts and no pulse was replaced
Clean == enc.kind = "enc" /\ enc.mut.k = 0
Mutated == enc.kind = "enc" /\ enc.mut.k > 0

Increasing(ts) == \A i \in 1..(Len(ts) - 1) : ts[i] < ts[i + 1]

\* sample index of the first edge of encoded block k
BlockStartOf(k) == SumRange(runs, 1, 4 + 65 * (k - 1))

\* the encoded times of all blocks but block k
RECURSIVE TimesWithout(_, _, _)
TimesWithout(ts, k, i) ==
    IF i > Len(ts) THEN <<>>
    ELSE (IF i = k THEN <<>> ELSE <<Num(WInt(ts[i]))>>) \o TimesWithout(ts, k, i + 1)

ReturnedTimes == [i \in 1..Len(returned) |-> returned[i].time]

\* t_max of a recording of n samples whose first block decodes to ts[1]
TMaxOfInput(n) == [nan |-> FALSE, t0 |-> WInt(enc.ts[1]), n |-> n, fs |-> fs]

\* encoded time t passes the comparison with t_max of a recording of n samples
\* whichever way a tie goes
SafelyWithin(t, n) ==
    /\ ~ExceedsTMax(Num(WInt(t)), TMaxOfInput(n))
    /\ ~TiesTMax(Num(WInt(t)), TMaxOfInput(n))

\* encoded time t passed the comparison with t_max as this call made it
PassedBound(t) ==
    /\ ~ExceedsTMax(Num(WInt(t)), TMaxOfInput(SumSeq(runs)))
    /\ ~(fp_tie /\ TiesTMax(Num(WInt(t)), TMaxOfInput(SumSeq(runs))))

\* C1: a well-formed block that decodes to a time earlier than the well-formed
\* block before it is marked corrupted and is not returned, so the times of
\* consecutive returned blocks never decrease.
C1_ReversalDropped ==
    pc = "done" =>
        /\ \A k \in 2..Len(sync_blocks) :
              FloatLt(sync_blocks[k].time, sync_blocks[k - 1].time) => sync_blocks[k].corrupted
        /\ \A i \in 1..(Len(returned) - 1) :
              ~FloatLt(returned[i + 1].time, returned[i].time)

\* C2: after the walk, a block whose time is later than the time of the block
\* before it by more than max_time_step is marked corrupted, the pair being
\* compared when neither member was corrupted already.
C2_LargeStepDropped ==
    pc \in {"walked", "done"} =>
        \A k \in 2..Len(sync_blocks) :
            ( /\ ~sync_blocks[k - 1].corrupted
              /\ ~sync_blocks[k].time.nan
              /\ WGt(sync_blocks[k].time.v,
                     WAdd(sync_blocks[k - 1].time.v, WInt(max_time_step))) )
            => sync_blocks[k].corrupted

\* the signal without the replaced pulse decodes cleanly: every block is returned
CleanDecodes ==
    /\ Mutated
    /\ enc.gap = 6
    /\ Len(enc.ts) >= 2
    /\ LET old == EncodeBlock(enc.ts[enc.mut.k], SamplesPerMs(fs))[enc.mut.pos + 1]
       IN  \A j \in 1..Len(enc.ts) : SafelyWithin(enc.ts[j], SumSeq(runs) - enc.mut.len + old)

\* the replaced pulse differs from the original by more than max_sample_err
ChangedBeyondErr ==
    LET old == EncodeBlock(enc.ts[enc.mut.k], SamplesPerMs(fs))[enc.mut.pos + 1]
    IN  Abs(enc.mut.len - old) > max_sample_err

\* exactly block enc.mut.k is missing from the result
OnlyMutatedBlockDropped ==
    /\ pc = "done"
    /\ ReturnedTimes = TimesWithout(enc.ts, enc.mut.k, 1)
    /\ \A i \in 1..(Len(returned) - 1) : returned[i].start < returned[i + 1].start

\* C3 as stated: changing the length of any one pulse of a block by more than
\* max_sample_err excludes exactly that block, whatever the pulse and the change.
C3_AnyPulseAnyChange ==
    (Terminal /\ CleanDecodes /\ ChangedBeyondErr) => OnlyMutatedBlockDropped

\* the replaced pulse is a code pulse, its new length is more than
\* max_sample_err from both low and high, and still nearest to one of them
CodePulseMadeInvalid ==
    /\ enc.mut.pos % 2 = 0
    /\ CodeCorrupted(fs, max_sample_err, <<enc.mut.len>>)
    /\ NearestExpectedPulseLen(fs, enc.mut.len) <= ExpectedPulseLen(fs).high

\* the other blocks stay within t_max of the changed recording
OthersStayWithin ==
    enc.mut.k = 1 \/ \A j \in 1..Len(enc.ts) : SafelyWithin(enc.ts[j], SumSeq(runs))

\* C3 amended: changing one of the 32 code pulses of a block to a length more
\* than max_sample_err from both low and high, yet no nearer to the inter-block
\* length than to high, excludes exactly that block, provided the other blocks
\* stay within t_max of the changed recording.
C3_CodePulseMadeInvalid ==
    (Terminal /\ CleanDecodes /\ CodePulseMadeInvalid /\ OthersStayWithin)
        => (OnlyMutatedBlockDropped /\ sync_blocks[enc.mut.k].corrupted)

C3_Witness ==
    /\ pc = "done" /\ CleanDecodes /\ CodePulseMadeInvalid /\ OthersStayWithin
    /\ Len(enc.ts) = 3 /\ enc.mut.k = 2 /\ Len(returned) = 2

\* every encoded block came back with its time and its start, none corrupted
DecodedExactly ==
    /\ pc = "done"
    /\ Len(returned) = Len(enc.ts)
    /\ \A k \in 1..Len(returned) :
          /\ returned[k].time = Num(WInt(enc.ts[k]))
          /\ returned[k].start = BlockStartOf(k)
    /\ NumCorrupted(sync_blocks) = 0

Canonical == Clean /\ enc.gap = 6 /\ Len(enc.ts) >= 1 /\ Increasing(enc.ts)

\* C4 as stated: every canonical signal encoding increasing timestamps decodes
\* to exactly those timestamps at the blocks' first edges, no block corrupted.
C4_RoundTrip == (Terminal /\ Canonical) => DecodedExactly

\* the round trip of two or more blocks whose times pass the comparison with
\* t_max = (first encoded time) + num_samples/fs as the call makes it
RoundTripOfSeveralWithinTMax ==
    (Terminal /\ Canonical /\ Len(enc.ts) >= 2
        /\ \A k \in 1..Len(enc.ts) : PassedBound(enc.ts[k]))
        => DecodedExactly

\* a canonical signal of one block ends in the TypeError of line 55
OneBlockFails ==
    (Terminal /\ Canonical /\ Len(enc.ts) = 1) => (pc = "raised" /\ raised = "TypeError")

\* the end-to-end example: three blocks at 0.0 s, 1.0 s and 2.0 s, fs = 30000
Example == Clean /\ fs = 30000 /\ max_sample_err = 2 /\ max_time_step = 2
           /\ enc.ts = <<0, 10, 20>>

ExampleDecoded ==
    /\ pc = "done"
    /\ Len(returned) = 3
    /\ NumCorrupted(sync_blocks) = 0
    /\ ReturnedTimes = <<Num(WInt(0)), Num(WInt(10)), Num(WInt(20))>>
    /\ returned[1].start < returned[2].start /\ returned[2].start < returned[3].start

C7_NoBlocksEmptyResult ==
    (Terminal /\ raised # "StopIteration" /\ FirstPulse(fs, pulse_len) = <<>>)
        => (pc = "done" /\ raised = "none" /\ returned = <<>>)

\* C8 as stated: fewer than 2 edges fails with InsufficientSignalError.
C8_InsufficientSignalError ==
    (Terminal /\ Len(EdgeIdx(runs)) < 2) => raised = "InsufficientSignalError"

\* C8 amended: with fewer than 2 edges the call fails at the search for the
\* first gap pulse with StopIteration, and with no other error or result.
C8_StopIteration ==
    (pc # "start" /\ Len(EdgeIdx(runs)) < 2)
        => /\ pc \in {"edges", "raised"}
           /\ pc = "raised" => raised = "StopIteration"
           /\ returned = <<>> /\ sync_blocks = <<>>

C8_Witness == pc = "raised" /\ Len(EdgeIdx(runs)) < 2 /\ raised = "StopIteration"

\* C10: every returned block has time <= t_max = block[0].time + num_samples/fs.
C10_Ceiling ==
    (pc = "done" /\ sync_blocks # <<>>) =>
        \A i \in 1..Len(returned) :
            /\ ~t_max.nan
            /\ ~ExceedsTMax(returned[i].time, t_max)

\* the shorter of the distances of a pulse length to low and to high
CodeError(len) ==
    Min({Abs(len - SamplesPerMs(fs)), Abs(len - 2 * SamplesPerMs(fs))})

\* C11: right after the check a block is flagged corrupted if and only if one
\* of its 32 code pulses, at offsets 0, 2, ..., 62 from its first pulse, is
\* more than max_sample_err from both low and high; once decoded, a corrupted
\* block has time nan and no bit code.
C11_CorruptedIffBadCodePulse ==
    /\ pc = "checked" =>
          \A i \in 1..Len(sync_blocks) :
              sync_blocks[i].corrupted <=>
                  \E k \in 0..31 :
                      CodeError(pulse_len[first_pulse[i] + 2 * k + 1]) > max_sample_err
    /\ pc = "decoded" =>
          \A i \in 1..Len(sync_blocks) :
              sync_blocks[i].corrupted =>
                  (sync_blocks[i].time.nan /\ sync_blocks[i].code = <<>>)

C11_Witness ==
    /\ pc = "decoded"
    /\ \E i, j \in 1..Len(sync_blocks) :
          /\ sync_blocks[i].corrupted /\ sync_blocks[i].time.nan
          /\ ~sync_blocks[j].corrupted /\ ~sync_blocks[j].time.nan

\* C12: every bit derived for a block that passed the corruption check is 0
\* or 1, so its time is sum(bit_i * 2^i)/10 within [0, (2^32 - 1)/10].
C12_BitsBinary ==
    pc \in {"decoded", "bounded", "walked", "done"} =>
        \A i \in 1..Len(sync_blocks) :
            ~sync_blocks[i].time.nan =>
                \A k \in 1..Len(sync_blocks[i].code) : sync_blocks[i].code[k] \in {0, 1}

\* positions in sync_blocks of the blocks whose flag is false
KeptPos == SortedSeq({i \in 1..Len(sync_blocks) : ~sync_blocks[i].corrupted})

\* C13: the returned list holds exactly the segmented blocks whose corrupted
\* flag is false after all checks, each with a time that is not nan, in
\* strictly ascending order of start sample index.
C13_ReturnedAreUncorrupted ==
    pc = "done" =>
        /\ returned = [j \in 1..Len(KeptPos) |-> sync_blocks[KeptPos[j]]]
        /\ \A j \in 1..Len(returned) : ~returned[j].corrupted /\ ~returned[j].time.nan
        /\ \A j \in 1..(Len(returned) - 1) : returned[j].start < returned[j + 1].start

C13_Witness ==
    /\ pc = "done" /\ Len(returned) >= 2 /\ Len(returned) < Len(sync_blocks)
    /\ \E i \in 1..Len(sync_blocks) : sync_blocks[i].corrupted /\ ~sync_blocks[i].time.nan

\* C14: the warning is given if and only if strictly more than 10% of the
\* segmented blocks are corrupted, and with or without it the call returns
\* the uncorrupted blocks and raises nothing.
C14_WarningAboveTenPercent ==
    pc = "done" =>
        /\ warned <=> 10 * NumCorrupted(sync_blocks) > Len(sync_blocks)
        /\ raised = "none"
        /\ returned = [j \in 1..Len(KeptPos) |-> sync_blocks[KeptPos[j]]]

C14_Witness ==
    /\ pc = "done" /\ ~warned
    /\ NumCorrupted(sync_blocks) = 1 /\ Len(sync_blocks) = 10 /\ Len(returned) = 9

\* a pulse that is classified as a gap between blocks or as a dropped block
GapPulse(len) == NearestExpectedPulseLen(fs, len) > ExpectedPulseLen(fs).high

\* C30: none of the 64 pulses of a returned block, at offsets 0..63 from its
\* first pulse, is classified as a gap.
C30_NoGapInsideBlock ==
    pc = "done" =>
        \A j \in 1..Len(KeptPos) :
            \A o \in 0..63 : ~GapPulse(pulse_len[first_pulse[KeptPos[j]] + o + 1])

(***************************************************************************)
(* Properties of ephystrialstart.                                          *)
(***************************************************************************)
\* the trials whose result has been assigned
Processed ==
    IF epc \in {"loop", "raised"} THEN 1..(i0 - 1)
    ELSE IF epc \in {"returned", "inserted"} THEN 1..Len(trial_time)
    ELSE {}

\* C6: every trial that starts strictly before the first block time or strictly
\* after the last gets a nan result, which stays nan after the offset is
\* subtracted; no index is searched for or extrapolated for such a trial.
C6_OutsideIsNull ==
    /\ \A i \in Processed :
          (TrialT0(i) < sync_block_time[1] \/ TrialT0(i) > sync_block_time[Len(sync_block_time)])
              => /\ ephys_trial_start_idx[i].nan
                 /\ epc = "inserted" => inserted[i].nan
    /\ epc = "raised" =>
          ~(TrialT0(i0) < sync_block_time[1] \/ TrialT0(i0) > sync_block_time[Len(sync_block_time)])

C6_Witness ==
    /\ epc = "returned"
    /\ \E i, j \in 1..Len(trial_time) :
          /\ TrialT0(i) < sync_block_time[1] /\ ephys_trial_start_idx[i].nan
          /\ TrialT0(j) > sync_block_time[Len(sync_block_time)] /\ ephys_trial_start_idx[j].nan

\* trial i is within the span of the blocks and its range holds no candidate
LacksCandidate(i) ==
    /\ ~OutsideCoverage(TrialT0(i), sync_block_time)
    /\ Monotonic(MidBins(sync_block_time))
    /\ Candidates(TrialT0(i), Digitize(TrialT0(i), MidBins(sync_block_time)), fs_ephys,
                  sync_block_start, sync_block_time, MidBins(sync_block_start)) = {}

\* C9: a trial with no candidate sample gets a null result and the other trials
\* of the call are still computed and returned.
C9_BadTrialDoesNotAbort ==
    \A i \in 1..Len(trial_time) :
        (epc \in {"raised", "returned", "inserted"} /\ LacksCandidate(i))
            => (epc # "raised" /\ ephys_trial_start_idx[i].nan)

\* the block, counted from 1, whose time bin holds the start of trial i
Anchor(i) ==
    Cardinality({j \in 1..Len(sync_block_time) :
        j = 1 \/ sync_block_time[j - 1] + sync_block_time[j] <= 2 * TrialT0(i)})

\* the trials whose index has been found and not yet offset
Found == IF epc = "loop" THEN {i \in 1..(i0 - 1) : ~ephys_trial_start_idx[i].nan} ELSE {}

LowerMid(a) == IF a = 1 THEN 0 ELSE (sync_block_start[a - 1] + sync_block_start[a]) \div 2

\* ceiling of the midpoint of the starts of the last two blocks
UpperMid ==
    LET n == Len(sync_block_start)
    IN  IF n = 1 THEN 0 ELSE (sync_block_start[n - 1] + sync_block_start[n] + 1) \div 2

NonDecreasing(x) == \A i \in 1..(Len(x) - 1) : x[i] <= x[i + 1]

\* the trial that nearest_block was computed for
AnchoredTrial ==
    IF epc = "loop" /\ i0 > 1 /\ ~ephys_trial_start_idx[i0 - 1].nan THEN {i0 - 1}
    ELSE IF eraised = "StopIteration" THEN {i0}
    ELSE {}

\* C21: for block times that never decrease and are not negative, the block
\* selected for a trial within the span of the blocks is a block nearest in
\* time to the trial start, and of two neighbours at the same distance on
\* either side of the trial start the later one is selected.
C21_AnchorIsNearest ==
    (NonDecreasing(sync_block_time) /\ \A j \in 1..Len(sync_block_time) : sync_block_time[j] >= 0)
        => \A i \in AnchoredTrial :
              /\ nearest_block \in 1..Len(sync_block_time)
              /\ \A j \in 1..Len(sync_block_time) :
                    Abs(sync_block_time[nearest_block] - TrialT0(i))
                        <= Abs(sync_block_time[j] - TrialT0(i))
              /\ \A j \in 1..(Len(sync_block_time) - 1) :
                    (/\ sync_block_time[j] <= TrialT0(i)
                     /\ TrialT0(i) <= sync_block_time[j + 1]
                     /\ TrialT0(i) - sync_block_time[j] = sync_block_time[j + 1] - TrialT0(i))
                        => nearest_block # j

C21_Witness ==
    /\ NonDecreasing(sync_block_time)
    /\ \E i \in AnchoredTrial :
          /\ nearest_block > 1
          /\ sync_block_time[nearest_block - 1] < TrialT0(i)
          /\ TrialT0(i) - sync_block_time[nearest_block - 1]
                 = sync_block_time[nearest_block] - TrialT0(i)

\* x rises from each element to the next
StrictlyIncreasing(x) == \A i \in 1..(Len(x) - 1) : x[i] < x[i + 1]

\* the block times advance by the time that the samples between the block
\* starts take at fs_ephys
Consistent ==
    \A j \in 1..(Len(sync_block_time) - 1) :
        (sync_block_time[j + 1] - sync_block_time[j]) * fs_ephys
            = (sync_block_start[j + 1] - sync_block_start[j]) * 1000000

\* C25: for block starts that rise strictly and block times that never
\* decrease and are consistent with fs_ephys, no call ends for lack of a
\* candidate, and every trial within the span of the blocks, whichever block
\* is nearest to it, gets an index that is not null.
C25_CandidateFound ==
    (StrictlyIncreasing(sync_block_start) /\ NonDecreasing(sync_block_time) /\ Consistent)
        => /\ eraised # "StopIteration"
           /\ \A i \in Processed :
                 ~OutsideCoverage(TrialT0(i), sync_block_time)
                     => ~ephys_trial_start_idx[i].nan

\* c is the first sample of the search range of trial i whose time is at or
\* after the trial start (the time of a sample never falls as the sample rises)
IsFirstCandidate(i, c) ==
    LET nearest == Digitize(TrialT0(i), MidBins(sync_block_time))
        range   == IdxRange(MidBins(sync_block_start), nearest)
    IN  /\ c \in range
        /\ Samp2Time(c, nearest, fs_ephys, sync_block_start, sync_block_time) >= TrialT0(i)
        /\ (c - 1) \in range =>
              Samp2Time(c - 1, nearest, fs_ephys, sync_block_start, sync_block_time)
                  < TrialT0(i)

\* C26: for every trial within the span of the blocks ephystrialstart returns
\* the first candidate less round(0.1 * fs_ephys); the row that
\* EphysTrialStart.make inserts holds the first candidate itself when the
\* session date is 2018-10-11 or earlier, and the returned value when it is later.
C26_LatencyOffset ==
    \A i \in 1..Len(trial_time) :
        ~OutsideCoverage(TrialT0(i), sync_block_time) =>
            /\ epc \in {"returned", "inserted"} =>
                  /\ ~ephys_trial_start_idx[i].nan
                  /\ IsFirstCandidate(i, ephys_trial_start_idx[i].v + RoundHalfEven(fs_ephys, 10))
            /\ (epc = "inserted" /\ session_date <= 20181011) =>
                  /\ ~inserted[i].nan
                  /\ IsFirstCandidate(i, inserted[i].v)
            /\ (epc = "inserted" /\ session_date > 20181011) =>
                  inserted[i] = ephys_trial_start_idx[i]

C26_Witness ==
    /\ epc = "inserted"
    /\ session_date = 20181011
    /\ \E i \in 1..Len(trial_time) :
          ~inserted[i].nan /\ inserted[i].v = ephys_trial_start_idx[i].v + 100

(***************************************************************************)
(* Properties of TrialAlignment.make.                                      *)
(***************************************************************************)
\* the phase correction is over, or was skipped
Phased == apc \in {"phased", "behavior", "ephys", "inserted"}

\* index, from 0, of the first stimulation sample of a stimulation condition,
\* else of the first sample in the alignment task state
ReferenceEvent ==
    IF atrial.stim_cond
    THEN Min({j \in 1..Len(atrial.stim) : atrial.stim[j] # 0}) - 1
    ELSE Min({j \in 1..Len(atrial.task_state) :
                 atrial.task_state[j] = atrial.task_state_id}) - 1

\* C15: every trial start index that is not null, after the offset and the
\* legacy adjustment, and every element of ephys_alignment is a valid index
\* into the recording; here, is not negative.
C15_IndicesValid ==
    /\ epc = "inserted" =>
          \A i \in 1..Len(inserted) : inserted[i].nan \/ inserted[i].v >= 0
    /\ apc = "inserted" =>
          \A k \in 1..Len(stored[1].ephys_alignment) : stored[1].ephys_alignment[k] >= 0

\* C16: the stored behavior_alignment and ephys_alignment have the same length.
C16_SameLength ==
    apc = "inserted" =>
        Len(stored[1].behavior_alignment) = Len(stored[1].ephys_alignment)

\* C17: when the target compared against has zero variance, whatever the
\* condition, the lag search is skipped, no division by zero is evaluated and
\* the lag applied is 0.
C17_ZeroVarianceSkips ==
    (Phased /\ ZeroVar(target_force))
        => (nmse = <<>> /\ ~div_by_zero /\ align_idx = ReferenceEvent)

\* the force, sliced without wrapping at lag d, equals the truncated target
ShiftedBy(d) ==
    \A k \in 1..Len(align_idx_trunc) :
        LET j == ReferenceEvent + d + align_idx_trunc[k]
        IN  j >= 0 /\ j < Len(atrial.force) /\ atrial.force[j + 1] = target_force[k]

\* the entry of nmse for lag d
NmseOf(d) == nmse[d + MaxLagSamp(atrial) + 1]

\* an NMSE of 1
One == [kind |-> "num", err |-> 0]

MatchesAt(d) ==
    /\ ReferenceEvent + d + align_idx_trunc[Len(align_idx_trunc)] < Len(atrial.force)
    /\ \A k \in 1..Len(align_idx_trunc) :
          LET j == ReferenceEvent + d + align_idx_trunc[k]
          IN  atrial.force[(IF j < 0 THEN j + Len(atrial.force) ELSE j) + 1] = target_force[k]

ExactLags == {d \in (-MaxLagSamp(atrial))..MaxLagSamp(atrial) : MatchesAt(d)}

C19_StaticNoLag ==
    (Phased /\ atrial.static) =>
        /\ align_idx = ReferenceEvent
        /\ nmse = <<>> /\ ~div_by_zero
        /\ apc = "inserted" =>
              stored[1].behavior_alignment[zero_idx + 1] = ReferenceEvent

C19_Witness ==
    /\ apc = "inserted" /\ atrial.static /\ atrial.related /\ atrial.shift = 2
    /\ align_idx = ReferenceEvent

\* C22: a call of TrialAlignment.make leaves the key it was passed as it was:
\* at every point of the call, and after it, the dict holds the primary key
\* and nothing else.
C22_KeyUnmodified == apc # "idle" => key = PrimaryKey

\* C27: the stored behavior_alignment starts at align_idx - zero_idx and rises
\* by exactly 1 from each element to the next, and the stored ephys_alignment
\* rises strictly from each element to the next, whatever the lag that was
\* applied and whatever the two sample rates.
C27_StrictlyIncreasing ==
    apc = "inserted" =>
        /\ stored[1].behavior_alignment[1] = align_idx - zero_idx
        /\ \A k \in 1..(Len(stored[1].behavior_alignment) - 1) :
              stored[1].behavior_alignment[k + 1] = stored[1].behavior_alignment[k] + 1
        /\ StrictlyIncreasing(stored[1].ephys_alignment)

\* the lags whose NMSE the search computed
EvaluatedLags ==
    {d \in (-MaxLagSamp(atrial))..MaxLagSamp(atrial) :
        Evaluated(Len(atrial.force), ReferenceEvent, d, align_idx_trunc)}

\* C28: for every lag whose NMSE is computed, every index at which the force
\* is read is at least 0 and less than the length of the force.
C28_NoNegativeIndex ==
    (Phased /\ SearchesLag(atrial)) =>
        \A d \in EvaluatedLags :
            \A k \in 1..Len(align_idx_trunc) :
                /\ ReferenceEvent + d + align_idx_trunc[k] >= 0
                /\ ReferenceEvent + d + align_idx_trunc[k] < Len(atrial.force)

\* C29: the lag added to the alignment index is a lag whose NMSE was
\* computed; when the guard rejects every lag, none is added.
C29_AppliedLagEvaluated ==
    (Phased /\ SearchesLag(atrial)) =>
        /\ align_idx # ReferenceEvent => (align_idx - ReferenceEvent) \in EvaluatedLags
        /\ EvaluatedLags = {} => align_idx = ReferenceEvent

(***************************************************************************)
(* Properties of the parser of the controller log.                         *)
(***************************************************************************)
\* two consecutive samples are about two sample periods apart: more than one
\* and a half and less than two and a half
HasDroppedPacket(time, sr) ==
    \E i \in 1..(Len(time) - 1) :
        /\ sr * TimeDiff(time)[i] > 1500
        /\ sr * TimeDiff(time)[i] < 2500

\* C23: a trial whose simulation time has a dropped packet is skipped by
\* set_trial_data and by readtrialdata, and the simulation time of any other
\* trial is returned as it is in the file.
C23_DroppedPacketSkipped ==
    /\ ppc \in {"data", "matched", "legacy"} =>
          \A n \in DOMAIN trial_files :
              /\ HasDroppedPacket(trial_files[n].data.time, sample_rate)
                     => n \notin DOMAIN trial_data
              /\ ~HasDroppedPacket(trial_files[n].data.time, sample_rate)
                     => ReadSimulationTime(trial_files[n].data.time, sample_rate)
                            = Some(trial_files[n].data.time)
    /\ ppc = "legacy" =>
          ((\A n \in DOMAIN trial_files :
                HasDroppedPacket(trial_files[n].data.time, JumanjiSampleRate))
              => sg_trial = None)

\* the trials whose params and data were both read
BothRead ==
    {n \in DOMAIN trial_files :
        /\ ~ReadTrialParams(trial_files, n).none
        /\ ~ReadTrialData(trial_files, n, sample_rate, success_state).none}

\* C24: after set_trial_data_and_params the two dictionaries have the same
\* trial numbers, those of the trials whose params and data were both read.
C24_SameTrials ==
    ppc \in {"matched", "legacy"} =>
        /\ DOMAIN trial_params = DOMAIN trial_data
        /\ DOMAIN trial_params = BothRead

====
